---- MODULE Spec2Model ----
(***************************************************************************)
(* The StartModel action of unicorn/frontend/browser/actions/StartModel.js  *)
(* as a state machine: the coroutine of the exported action (resolve the   *)
(* metric min/max, create the model) followed by streamData (replay the    *)
(* cached rows, or read the file record by record and save the rows).      *)
(* Every callback of a database or file client is one action; what the     *)
(* client answers is chosen by the environment.                            *)
(***************************************************************************)
EXTENDS Integers, Sequences, FiniteSets, TLC

VARIABLES
  pc,             \* where the invocation is suspended
  timestampField, \* model.timestampField
  dbMetric,       \* what the database holds under the metric id
  dbRows,         \* what the database holds as the metric's data rows
  metric,         \* local `metric` of the action
  stats,          \* local `stats` of the action
  fileStats,      \* local `fileStats` of the action
  metricData,     \* local `metricData` of streamData
  rowId,          \* local `rowId` of streamData
  rows,           \* local `rows` of streamData
  outer,          \* the promise returned by the action
  inner,          \* the promise returned by streamData
  delivered,      \* what fileClient.getData has handed to its callback so far
  trace,          \* the calls made on collaborators and promises, and the
                  \* callbacks fired, of the current invocation, in order
  earlier,        \* the invocations that came before the current one
  streams,        \* two streamData calls running at the same time: the locals,
                  \* promise and calls of each
  chart,          \* the Chart component: its fields (`this`)
  props,          \* this.props: data and metaData
  phase,          \* where the component is in its lifecycle
  dygraphs,       \* the Dygraph instances that exist
  lastCall,       \* the last lifecycle hook run and what it did
  pointUnit       \* `unit` of the _chartInitalize that made the instance

\* the variables of the Chart component
chartVars == <<chart, props, phase, dygraphs, lastCall, pointUnit>>

\* the variables of the parts of the program that a specification of
\* another part leaves alone
aside == <<streams, chartVars>>

\* the variables of one invocation of the action after the other
actionVars == <<pc, timestampField, dbMetric, dbRows, metric, stats,
                fileStats, metricData, rowId, rows, outer, inner, delivered,
                trace, earlier>>

vars == <<actionVars, aside>>

-----------------------------------------------------------------------------
(* Bounds *)

MaxDeliveries == 3   \* callbacks of getData in one run
MaxCached == 2       \* data rows the database holds at the start
MaxRuns == 2         \* invocations of the action, one after the other
MaxPairDeliveries == 2   \* callbacks of getData in each call of a pair
MaxPoints == 3       \* points in the data handed to the chart

-----------------------------------------------------------------------------
(* Values *)

ModelId == "model1"
MetricName == "value"                 \* model.metric
MetricNames == {"value", "other"}     \* columns a file may have statistics for
TimestampFields == {"timestamp", "time"}
Timestamps == {1000, 2500}            \* milliseconds since the epoch
Values == {3, 8}
StatsValues == {[min |-> 0, max |-> 5], [min |-> 2, max |-> 9]}

Undefined == [undefined |-> TRUE]
NaN == [nan |-> TRUE]

\* a file record that parses: row[model.timestampField], row[model.metric]
Records == [ts : Timestamps, val : Values]

\* what one call of the getData callback carries
Deliveries ==
  [kind : {"data"}, ts : Timestamps, val : Values]
    \cup {[kind |-> k, ts |-> 0, val |-> 0] : k \in {"bad", "error", "end"}}

\* the metric records the database may hold: min and max are optional
MetricBase == [uid |-> "uid1", name |-> "value"]
Extend(f, g) ==
  [k \in DOMAIN f \cup DOMAIN g |-> IF k \in DOMAIN g THEN g[k] ELSE f[k]]
MetricRecords ==
  {Extend(MetricBase, [k \in D |-> s[k]]) :
     D \in SUBSET {"min", "max"}, s \in StatsValues}

\* the statistics objects fileClient.getStatistics may answer
FileStatsObjects ==
  {[k \in D |-> s] : D \in SUBSET MetricNames, s \in StatsValues}

Event(op, arg) == [op |-> op, arg |-> arg]
NoArg == <<>>

\* what a local holds: nothing yet, an Error, or a value
Unset == [kind |-> "unset", value |-> <<>>]
Failed(e) == [kind |-> "error", value |-> e]
Got(v) == [kind |-> "value", value |-> v]
Truth == [kind |-> "true", value |-> <<>>]

\* no invocation came before
NoEarlier == [runs |-> 0, ok |-> FALSE, read |-> FALSE, records |-> 0]

Pending == [state |-> "pending", value |-> "none"]
NoPromise == [state |-> "none", value |-> "none"]

-----------------------------------------------------------------------------
(* Pure helpers *)

\* new Date(x).getTime() / 1000: seconds, with the milliseconds as fraction
EpochSeconds(ms) == [sec |-> ms \div 1000, frac |-> ms % 1000]

\* a promise settles once: later resolve and reject calls change nothing
Settle(p, state, value) ==
  IF p.state = "pending" THEN [state |-> state, value |-> value] ELSE p

\* the row object queued for the database
DataRow(rec, id) ==
  [rowid |-> id, timestamp |-> rec.ts, metric_value |-> rec.val,
   display_value |-> rec.val]

RECURSIVE RowsOf(_, _)
RowsOf(recs, from) ==
  IF recs = <<>> THEN <<>>
  ELSE <<DataRow(Head(recs), from)>> \o RowsOf(Tail(recs), from + 1)

\* JSON.stringify / JSON.parse of the row list: a string, not a list
JSONStringify(rs) == [json |-> rs]
JSONParse(s) == s.json

\* a callback of the request `name` has fired
Fired(t, name) == Append(t, Event("callback", name))

\* the database client: what it holds after putMetric and putMetricDatas, and
\* what getMetricDatas hands to its callback
DatabasePutMetric(record) == record
DatabasePutMetricDatas(batch) == JSONParse(batch)
DatabaseGetMetricDatas == JSONStringify(dbRows)

\* the SendData payload of a row read back from the database
ReplayEvent(row) ==
  Event("SendData",
        <<IF timestampField = "timestamp"
            THEN EpochSeconds(row.timestamp) ELSE NaN,
          row.metric_value>>)

\* ReplayAll with the rows walked from the last to the first
RECURSIVE ReplayAllReversed(_)
ReplayAllReversed(rs) ==
  IF rs = <<>> THEN <<>>
  ELSE ReplayAllReversed(Tail(rs)) \o <<ReplayEvent(Head(rs))>>

RECURSIVE ReplayAll(_)
ReplayAll(rs) ==
  IF rs = <<>> THEN <<>>
  ELSE <<ReplayEvent(Head(rs))>> \o ReplayAll(Tail(rs))

\* the SendData payload of a record read from the file
LiveEvent(d) == Event("SendData", <<EpochSeconds(d.ts), d.val>>)

\* the object handed to putMetric
PutMetricArg ==
  [uid |-> metric.uid, name |-> metric.name, model_uid |-> ModelId,
   min |-> stats.min, max |-> stats.max]

\* metric && ('min' in metric) && ('max' in metric)
HasBounds(m) == m # Undefined /\ "min" \in DOMAIN m /\ "max" \in DOMAIN m

-----------------------------------------------------------------------------
(* Initial state *)

Invocations == {1, 2}

\* no streamData call of the pair has been made
NoStreams == [i \in Invocations |-> [pc |-> "idle"]]

\* null, and a field that holds a value
Null == [null |-> TRUE]
Val(v) == [value |-> v]

\* this._config.get('chart:points')
PointCounts == {1, 2}

\* a point of the data: [date, value], the date as its time in milliseconds
Point(t) == <<t, 0>>
\* props.data: points in ascending order of time, none to MaxPoints of them
DataSets ==
  {d \in UNION {[1..n -> {Point(t) : t \in 1..MaxPoints}] : n \in 0..MaxPoints} :
     \A k \in 1..(Len(d) - 1) : d[k][1] < d[k + 1][1]}
\* props.metaData: the default {} or the number of model results so far
MetaDatas ==
  {[k \in {} |-> 0]} \cup {[length |-> [model |-> n]] : n \in 0..MaxPoints}
Props == [data : DataSets, metaData : MetaDatas]
\* Chart.defaultProps
DefaultProps == [data |-> <<>>, metaData |-> [k \in {} |-> 0]]

\* no lifecycle hook has run
NoCall == [hook |-> "none", ran |-> "none", threw |-> FALSE, before |-> Null]

\* the component as its constructor leaves it
Constructed(count) ==
  [_dygraph |-> Null, _displayPointCount |-> count, _chartBusy |-> Null,
   _chartRange |-> Null, _chartRangeWidth |-> Null, _chartScrollLock |-> Null]

\* a component has been constructed and no hook has run
InitComponent ==
  /\ phase = "constructed"
  /\ dygraphs = {}
  /\ lastCall = NoCall
  /\ pointUnit = Null

\* a chart with the default props that is never mounted
ChartNotUsed ==
  /\ InitComponent
  /\ chart = Constructed(CHOOSE c \in PointCounts : \A o \in PointCounts : c <= o)
  /\ props = DefaultProps

\* the action has not been invoked
InitAction ==
  /\ pc = "idle"
  /\ timestampField \in TimestampFields
  /\ dbMetric \in MetricRecords \cup {Undefined}
  /\ \E n \in 0..MaxCached : \E recs \in [1..n -> Records] :
        dbRows = RowsOf(recs, 0)
  /\ metric = [k \in {} |-> 0]
  /\ stats = [k \in {} |-> 0]
  /\ fileStats = Unset
  /\ metricData = Unset
  /\ rowId = 0
  /\ rows = <<>>
  /\ outer = NoPromise
  /\ inner = NoPromise
  /\ delivered = <<>>
  /\ trace = <<>>
  /\ earlier = NoEarlier

\* the action is never invoked
ActionNotUsed ==
  /\ InitAction
  /\ timestampField = "timestamp"
  /\ dbMetric = Undefined
  /\ dbRows = <<>>

Init ==
  /\ streams = NoStreams
  /\ ChartNotUsed
  /\ InitAction

-----------------------------------------------------------------------------
(* The exported action: resolve the bounds, create the model *)

\* A callback puts its result on a channel and the coroutine takes it and runs
\* to its next take: one action, since nothing else of the invocation can run
\* in between. The promise of the action is only ever rejected: on success the
\* coroutine returns the streamData promise without calling resolve.

\* the action is invoked: the coroutine runs up to its first take
StartModel ==
  /\ pc = "idle"
  /\ outer' = Pending
  /\ trace' = Append(trace, Event("getMetric", NoArg))
  /\ pc' = "getMetric"
  /\ UNCHANGED <<timestampField, dbMetric, dbRows, metric, stats, rowId,
                 rows, inner, delivered, fileStats, metricData>>
  /\ UNCHANGED <<earlier, aside>>

\* EnterStreaming with streamData started before the model is created
EnterStreamingFirst(t, st) ==
  /\ trace' = t \o <<Event("dispatch", "START_MODEL_SUCCESS"),
                     Event("getMetricDatas", NoArg),
                     Event("createModel", st)>>
  /\ inner' = Pending
  /\ metricData' = Unset
  /\ rowId' = 0
  /\ rows' = <<>>
  /\ pc' = "getMetricDatas"

\* the tail of the coroutine: dispatch, createModel, and streamData up to its
\* first take (the data rows query)
EnterStreaming(t, st) ==
  /\ trace' = t \o <<Event("dispatch", "START_MODEL_SUCCESS"),
                     Event("createModel", st),
                     Event("getMetricDatas", NoArg)>>
  /\ inner' = Pending
  /\ metricData' = Unset
  /\ rowId' = 0
  /\ rows' = <<>>
  /\ pc' = "getMetricDatas"

\* getMetric calls back with an error that is not 'notFound'
GetMetricError ==
  /\ pc = "getMetric"
  /\ metric' = Failed("DatabaseGetError")
  /\ outer' = Settle(outer, "rejected", "DatabaseGetError")
  /\ trace' = Append(Fired(trace, "getMetric"), Event("reject", "DatabaseGetError"))
  /\ pc' = "done"
  /\ UNCHANGED <<timestampField, dbMetric, dbRows, stats, rowId, rows, inner,
                 delivered, fileStats, metricData>>
  /\ UNCHANGED <<earlier, aside>>

\* GetMetricResult with the cached bounds ignored
GetMetricResultNoCache ==
  /\ pc = "getMetric"
  /\ metric' = dbMetric
  /\ trace' = Append(Fired(trace, "getMetric"), Event("getStatistics", NoArg))
  /\ pc' = "getStatistics"
  /\ UNCHANGED <<stats, inner, rowId, rows, metricData>>
  /\ UNCHANGED <<timestampField, dbMetric, dbRows, outer, delivered,
                 fileStats>>
  /\ UNCHANGED <<earlier, aside>>

\* getMetric calls back with the record, or with 'notFound' and no record
GetMetricResult ==
  /\ pc = "getMetric"
  /\ metric' = dbMetric
  /\ IF HasBounds(dbMetric)
       THEN /\ stats' = [min |-> dbMetric.min, max |-> dbMetric.max]
            /\ EnterStreaming(Fired(trace, "getMetric"), stats')
       ELSE /\ trace' = Append(Fired(trace, "getMetric"), Event("getStatistics", NoArg))
            /\ pc' = "getStatistics"
            /\ UNCHANGED <<stats, inner, rowId, rows, metricData>>
  /\ UNCHANGED <<timestampField, dbMetric, dbRows, outer, delivered,
                 fileStats>>
  /\ UNCHANGED <<earlier, aside>>

\* getStatistics calls back with an error
GetStatisticsError ==
  /\ pc = "getStatistics"
  /\ fileStats' = Failed("FilesystemGetError")
  /\ outer' = Settle(outer, "rejected", "FilesystemGetError")
  /\ trace' = Append(Fired(trace, "getStatistics"), Event("reject", "FilesystemGetError"))
  /\ pc' = "done"
  /\ UNCHANGED <<timestampField, dbMetric, dbRows, metric, stats, rowId,
                 rows, inner, delivered, metricData>>
  /\ UNCHANGED <<earlier, aside>>

\* getStatistics calls back with a statistics object that lacks model.metric:
\* the object itself is what the promise is rejected with
GetStatisticsMissing ==
  /\ pc = "getStatistics"
  /\ \E object \in FileStatsObjects :
        /\ MetricName \notin DOMAIN object
        /\ fileStats' = Got(object)
  /\ outer' = Settle(outer, "rejected", "StatisticsObject")
  /\ trace' = Append(Fired(trace, "getStatistics"), Event("reject", "StatisticsObject"))
  /\ pc' = "done"
  /\ UNCHANGED <<timestampField, dbMetric, dbRows, metric, stats, rowId,
                 rows, inner, delivered, metricData>>
  /\ UNCHANGED <<earlier, aside>>

\* GetStatisticsResult with the take of the putMetric channel left out
GetStatisticsResultNoWait ==
  /\ pc = "getStatistics"
  /\ \E object \in FileStatsObjects :
        /\ MetricName \in DOMAIN object
        /\ fileStats' = Got(object)
        /\ stats' = object[MetricName]
  /\ UNCHANGED <<timestampField, dbMetric, dbRows, metric, outer, delivered>>
  /\ IF metric = Undefined
       THEN /\ trace' = Append(Fired(trace, "getStatistics"),
                               Event("throw", "TypeError"))
            /\ pc' = "crashed"
            /\ UNCHANGED <<rowId, rows, inner, metricData>>
       ELSE EnterStreaming(Append(Fired(trace, "getStatistics"),
                                  Event("putMetric", PutMetricArg')), stats')
  /\ UNCHANGED <<earlier, aside>>

\* getStatistics calls back with statistics that hold model.metric; building
\* the putMetric argument reads metric.uid, which throws when metric is
\* undefined
GetStatisticsResult ==
  /\ pc = "getStatistics"
  /\ \E object \in FileStatsObjects :
        /\ MetricName \in DOMAIN object
        /\ fileStats' = Got(object)
        /\ stats' = object[MetricName]
  /\ UNCHANGED <<timestampField, dbMetric, dbRows, metric, rowId, rows,
                 outer, inner, delivered, metricData>>
  /\ IF metric = Undefined
       THEN /\ trace' = Append(Fired(trace, "getStatistics"), Event("throw", "TypeError"))
            /\ pc' = "crashed"
       ELSE /\ trace' = Append(Fired(trace, "getStatistics"), Event("putMetric", PutMetricArg'))
            /\ pc' = "putMetric"
  /\ UNCHANGED <<earlier, aside>>

\* PutMetricError with the return after reject left out
PutMetricErrorFallsThrough ==
  /\ pc = "putMetric"
  /\ fileStats' = Failed("DatabasePutError")
  /\ outer' = Settle(outer, "rejected", "DatabasePutError")
  /\ EnterStreaming(Append(Fired(trace, "putMetric"),
                           Event("reject", "DatabasePutError")), stats)
  /\ UNCHANGED <<timestampField, dbMetric, dbRows, metric, stats, delivered>>
  /\ UNCHANGED <<earlier, aside>>

\* putMetric calls back with an error
PutMetricError ==
  /\ pc = "putMetric"
  /\ fileStats' = Failed("DatabasePutError")
  /\ outer' = Settle(outer, "rejected", "DatabasePutError")
  /\ trace' = Append(Fired(trace, "putMetric"), Event("reject", "DatabasePutError"))
  /\ pc' = "done"
  /\ UNCHANGED <<timestampField, dbMetric, dbRows, metric, stats, rowId,
                 rows, inner, delivered, metricData>>
  /\ UNCHANGED <<earlier, aside>>

\* putMetric calls back without error: the database now holds the record
PutMetricOk ==
  /\ pc = "putMetric"
  /\ dbMetric' = DatabasePutMetric(PutMetricArg)
  /\ fileStats' = Truth
  /\ EnterStreaming(Fired(trace, "putMetric"), stats)
  /\ UNCHANGED <<timestampField, dbRows, metric, stats, outer, delivered>>
  /\ UNCHANGED <<earlier, aside>>

-----------------------------------------------------------------------------
(* streamData *)

\* The callback handed to getData stays registered until the end sentinel:
\* the code keeps no flag and detaches nothing after a read error or after
\* the exception of a bad record, so the file client may call it again with
\* anything. What the client does after such a call is its own choice; the
\* model allows every continuation, including none. After the end sentinel
\* the client makes no further call.

\* GetMetricDatasError with the return after reject left out: an Error has no
\* length, so the file is read
GetMetricDatasErrorFallsThrough ==
  /\ pc = "getMetricDatas"
  /\ metricData' = Failed("DatabaseGetError")
  /\ inner' = Settle(inner, "rejected", "DatabaseGetError")
  /\ trace' = Fired(trace, "getMetricDatas")
                 \o <<Event("streamReject", "DatabaseGetError"),
                      Event("getData", NoArg)>>
  /\ pc' = "streaming"
  /\ UNCHANGED <<timestampField, dbMetric, dbRows, metric, stats, rowId,
                 rows, outer, delivered, fileStats>>
  /\ UNCHANGED <<earlier, aside>>

\* getMetricDatas calls back with an error
GetMetricDatasError ==
  /\ pc = "getMetricDatas"
  /\ metricData' = Failed("DatabaseGetError")
  /\ inner' = Settle(inner, "rejected", "DatabaseGetError")
  /\ trace' = Append(Fired(trace, "getMetricDatas"), Event("streamReject", "DatabaseGetError"))
  /\ pc' = "done"
  /\ UNCHANGED <<timestampField, dbMetric, dbRows, metric, stats, rowId,
                 rows, outer, delivered, fileStats>>
  /\ UNCHANGED <<earlier, aside>>

\* getMetricDatas calls back with saved rows: replay them and resolve
GetMetricDatasCached ==
  /\ pc = "getMetricDatas"
  /\ metricData' = Got(JSONParse(DatabaseGetMetricDatas))
  /\ Len(metricData'.value) > 0
  /\ trace' = Fired(trace, "getMetricDatas") \o ReplayAll(metricData'.value)
                    \o <<Event("streamResolve", ModelId)>>
  /\ inner' = Settle(inner, "resolved", ModelId)
  /\ pc' = "done"
  /\ UNCHANGED <<timestampField, dbMetric, dbRows, metric, stats, rowId,
                 rows, outer, delivered, fileStats>>
  /\ UNCHANGED <<earlier, aside>>

\* getMetricDatas calls back with no rows: start reading the file
GetMetricDatasEmpty ==
  /\ pc = "getMetricDatas"
  /\ metricData' = Got(JSONParse(DatabaseGetMetricDatas))
  /\ Len(metricData'.value) = 0
  /\ trace' = Append(Fired(trace, "getMetricDatas"), Event("getData", NoArg))
  /\ pc' = "streaming"
  /\ UNCHANGED <<timestampField, dbMetric, dbRows, metric, stats, rowId,
                 rows, outer, inner, delivered, fileStats>>
  /\ UNCHANGED <<earlier, aside>>

\* the getData callback is called with an error
GetDataError ==
  /\ pc = "streaming"
  /\ Len(delivered) < MaxDeliveries
  /\ delivered' = Append(delivered, [kind |-> "error", ts |-> 0, val |-> 0])
  /\ trace' = Fired(trace, "getData") \o <<Event("StopModel", ModelId),
                         Event("streamReject", "ReadError")>>
  /\ inner' = Settle(inner, "rejected", "ReadError")
  /\ UNCHANGED <<pc, timestampField, dbMetric, dbRows, metric, stats, rowId,
                 rows, outer, fileStats, metricData>>
  /\ UNCHANGED <<earlier, aside>>

\* GetDataRecord with the rowId++ left out
GetDataRecordSameId ==
  /\ pc = "streaming"
  /\ Len(delivered) < MaxDeliveries
  /\ \E d \in {x \in Deliveries : x.kind = "data"} :
        /\ delivered' = Append(delivered, d)
        /\ rows' = Append(rows, DataRow(d, rowId))
        /\ trace' = Append(Fired(trace, "getData"), LiveEvent(d))
  /\ UNCHANGED <<pc, timestampField, dbMetric, dbRows, metric, stats, outer,
                 inner, fileStats, metricData, rowId>>
  /\ UNCHANGED <<earlier, aside>>

\* GetDataRecord with the rows.push left out
GetDataRecordNoPush ==
  /\ pc = "streaming"
  /\ Len(delivered) < MaxDeliveries
  /\ \E d \in {x \in Deliveries : x.kind = "data"} :
        /\ delivered' = Append(delivered, d)
        /\ trace' = Append(Fired(trace, "getData"), LiveEvent(d))
  /\ rowId' = rowId + 1
  /\ UNCHANGED <<pc, timestampField, dbMetric, dbRows, metric, stats, outer,
                 inner, fileStats, metricData, rows>>
  /\ UNCHANGED <<earlier, aside>>

\* the getData callback is called with a record that parses
GetDataRecord ==
  /\ pc = "streaming"
  /\ Len(delivered) < MaxDeliveries
  /\ \E d \in {x \in Deliveries : x.kind = "data"} :
        /\ delivered' = Append(delivered, d)
        /\ rows' = Append(rows, DataRow(d, rowId))
        /\ trace' = Append(Fired(trace, "getData"), LiveEvent(d))
  /\ rowId' = rowId + 1
  /\ UNCHANGED <<pc, timestampField, dbMetric, dbRows, metric, stats, outer,
                 inner, fileStats, metricData>>
  /\ UNCHANGED <<earlier, aside>>

\* the getData callback is called with a record that does not parse: the
\* catch block rejects and falls through to row[...] with row undefined,
\* which throws out of the callback
GetDataBadRecord ==
  /\ pc = "streaming"
  /\ Len(delivered) < MaxDeliveries
  /\ delivered' = Append(delivered, [kind |-> "bad", ts |-> 0, val |-> 0])
  /\ trace' = Fired(trace, "getData") \o <<Event("streamReject", "SyntaxError"),
                         Event("throw", "TypeError")>>
  /\ inner' = Settle(inner, "rejected", "SyntaxError")
  /\ UNCHANGED <<pc, timestampField, dbMetric, dbRows, metric, stats, rowId,
                 rows, outer, fileStats, metricData>>
  /\ UNCHANGED <<earlier, aside>>

\* GetDataEnd with an empty list saved in place of the accumulated rows
GetDataEndEmptyBatch ==
  /\ pc = "streaming"
  /\ Len(delivered) < MaxDeliveries
  /\ delivered' = Append(delivered, [kind |-> "end", ts |-> 0, val |-> 0])
  /\ rows' = JSONStringify(<<>>)
  /\ trace' = Append(Fired(trace, "getData"), Event("putMetricDatas", rows'))
  /\ pc' = "putMetricDatas"
  /\ UNCHANGED <<timestampField, dbMetric, dbRows, metric, stats, rowId,
                 outer, inner, fileStats, metricData>>
  /\ UNCHANGED <<earlier, aside>>

\* the getData callback is called with no error and no data: end of data
GetDataEnd ==
  /\ pc = "streaming"
  /\ Len(delivered) < MaxDeliveries
  /\ delivered' = Append(delivered, [kind |-> "end", ts |-> 0, val |-> 0])
  /\ rows' = JSONStringify(rows)
  /\ trace' = Append(Fired(trace, "getData"), Event("putMetricDatas", rows'))
  /\ pc' = "putMetricDatas"
  /\ UNCHANGED <<timestampField, dbMetric, dbRows, metric, stats, rowId,
                 outer, inner, fileStats, metricData>>
  /\ UNCHANGED <<earlier, aside>>

\* putMetricDatas calls back with an error
PutMetricDatasError ==
  /\ pc = "putMetricDatas"
  /\ inner' = Settle(inner, "rejected", "WriteError")
  /\ trace' = Append(Fired(trace, "putMetricDatas"), Event("streamReject", "WriteError"))
  /\ pc' = "done"
  /\ UNCHANGED <<timestampField, dbMetric, dbRows, metric, stats, rowId,
                 rows, outer, delivered, fileStats, metricData>>
  /\ UNCHANGED <<earlier, aside>>

\* putMetricDatas calls back without error: the database now holds the rows
PutMetricDatasOk ==
  /\ pc = "putMetricDatas"
  /\ dbRows' = DatabasePutMetricDatas(rows)
  /\ inner' = Settle(inner, "resolved", ModelId)
  /\ trace' = Append(Fired(trace, "putMetricDatas"), Event("streamResolve", ModelId))
  /\ pc' = "done"
  /\ UNCHANGED <<timestampField, dbMetric, metric, stats, rowId, rows, outer,
                 delivered, fileStats, metricData>>
  /\ UNCHANGED <<earlier, aside>>

-----------------------------------------------------------------------------
(* A later invocation *)

\* the action is invoked again for the same model once the invocation before
\* it has run to its end: fresh locals and promises, the same database
StartModelAgain ==
  /\ pc = "done"
  /\ earlier.runs + 1 < MaxRuns
  /\ earlier' = [runs |-> earlier.runs + 1,
                 ok |-> inner.state = "resolved",
                 read |-> \E i \in DOMAIN trace : trace[i].op = "getData",
                 records |->
                   Cardinality({i \in DOMAIN trace :
                                  trace[i].op = "SendData"})]
  /\ metric' = [k \in {} |-> 0]
  /\ stats' = [k \in {} |-> 0]
  /\ fileStats' = Unset
  /\ metricData' = Unset
  /\ rowId' = 0
  /\ rows' = <<>>
  /\ outer' = Pending
  /\ inner' = NoPromise
  /\ delivered' = <<>>
  /\ trace' = <<Event("getMetric", NoArg)>>
  /\ pc' = "getMetric"
  /\ UNCHANGED <<timestampField, dbMetric, dbRows, aside>>

-----------------------------------------------------------------------------
(* Two streamData calls at the same time *)

\* The action is invoked for two models. streamData keeps rowId and rows as
\* locals of the call, so each call has its own; the database keeps the rows
\* of each model under the model's id, and has none for either. Both calls have made their data rows
\* query; the callbacks of the two interleave freely.

\* the model call i streams for
ModelOf(i) == IF i = 1 THEN "model-1" ELSE "model-2"

\* streamData has been called: fresh locals, the data rows query is out
StreamCalled ==
  [pc |-> "getMetricDatas", rowId |-> 0, rows |-> <<>>, delivered |-> <<>>,
   promise |-> Pending,
   calls |-> <<Event("getMetricDatas", NoArg)>>]

InitPair ==
  /\ streams = [i \in Invocations |-> StreamCalled]
  /\ ChartNotUsed
  /\ ActionNotUsed

\* call i goes on as `next`
Continue(i, next) == streams' = [streams EXCEPT ![i] = next]

\* getMetricDatas calls back with no rows: call i starts reading the file
PairGetMetricDatasEmpty(i) ==
  /\ streams[i].pc = "getMetricDatas"
  /\ Continue(i, [streams[i] EXCEPT
                    !.pc = "streaming",
                    !.calls = Append(@, Event("getData", NoArg))])
  /\ UNCHANGED <<actionVars, chartVars>>

\* the getData callback of call i is called with an error
PairGetDataError(i) ==
  /\ streams[i].pc = "streaming"
  /\ Len(streams[i].delivered) < MaxPairDeliveries
  /\ Continue(i, [streams[i] EXCEPT
                    !.delivered =
                       Append(@, [kind |-> "error", ts |-> 0, val |-> 0]),
                    !.calls = @ \o <<Event("StopModel", ModelOf(i)),
                                     Event("streamReject", "ReadError")>>,
                    !.promise = Settle(@, "rejected", "ReadError")])
  /\ UNCHANGED <<actionVars, chartVars>>

\* PairGetDataRecord with rowId kept in one place for both calls
PairGetDataRecordSharedRowId(i) ==
  /\ streams[i].pc = "streaming"
  /\ Len(streams[i].delivered) < MaxPairDeliveries
  /\ \E d \in {x \in Deliveries : x.kind = "data"} :
        streams' = [j \in Invocations |->
          IF j = i
            THEN [streams[i] EXCEPT
                    !.delivered = Append(@, d),
                    !.rows = Append(@, DataRow(d, streams[i].rowId)),
                    !.rowId = @ + 1,
                    !.calls = Append(@, LiveEvent(d))]
            ELSE IF streams[j].pc = "streaming"
                   THEN [streams[j] EXCEPT !.rowId = @ + 1]
                   ELSE streams[j]]
  /\ UNCHANGED <<actionVars, chartVars>>

\* the getData callback of call i is called with a record that parses
PairGetDataRecord(i) ==
  /\ streams[i].pc = "streaming"
  /\ Len(streams[i].delivered) < MaxPairDeliveries
  /\ \E d \in {x \in Deliveries : x.kind = "data"} :
        Continue(i, [streams[i] EXCEPT
                       !.delivered = Append(@, d),
                       !.rows = Append(@, DataRow(d, streams[i].rowId)),
                       !.rowId = @ + 1,
                       !.calls = Append(@, LiveEvent(d))])
  /\ UNCHANGED <<actionVars, chartVars>>

\* the getData callback of call i is called with a record that does not parse
PairGetDataBadRecord(i) ==
  /\ streams[i].pc = "streaming"
  /\ Len(streams[i].delivered) < MaxPairDeliveries
  /\ Continue(i, [streams[i] EXCEPT
                    !.delivered =
                       Append(@, [kind |-> "bad", ts |-> 0, val |-> 0]),
                    !.calls = @ \o <<Event("streamReject", "SyntaxError"),
                                     Event("throw", "TypeError")>>,
                    !.promise = Settle(@, "rejected", "SyntaxError")])
  /\ UNCHANGED <<actionVars, chartVars>>

\* the getData callback of call i is called with no error and no data
PairGetDataEnd(i) ==
  /\ streams[i].pc = "streaming"
  /\ Len(streams[i].delivered) < MaxPairDeliveries
  /\ Continue(i, [streams[i] EXCEPT
                    !.delivered =
                       Append(@, [kind |-> "end", ts |-> 0, val |-> 0]),
                    !.rows = JSONStringify(@),
                    !.calls = Append(@, Event("putMetricDatas",
                                              JSONStringify(streams[i].rows))),
                    !.pc = "putMetricDatas"])
  /\ UNCHANGED <<actionVars, chartVars>>

\* putMetricDatas of call i calls back with an error
PairPutMetricDatasError(i) ==
  /\ streams[i].pc = "putMetricDatas"
  /\ Continue(i, [streams[i] EXCEPT
                    !.calls = Append(@, Event("streamReject", "WriteError")),
                    !.promise = Settle(@, "rejected", "WriteError"),
                    !.pc = "done"])
  /\ UNCHANGED <<actionVars, chartVars>>

\* putMetricDatas of call i calls back without error
PairPutMetricDatasOk(i) ==
  /\ streams[i].pc = "putMetricDatas"
  /\ Continue(i, [streams[i] EXCEPT
                    !.calls = Append(@, Event("streamResolve", ModelOf(i))),
                    !.promise = Settle(@, "resolved", ModelOf(i)),
                    !.pc = "done"])
  /\ UNCHANGED <<actionVars, chartVars>>

NextPair ==
  \/ \E i \in Invocations : PairGetMetricDatasEmpty(i)
  \/ \E i \in Invocations : PairGetDataError(i)
  \/ \E i \in Invocations : PairGetDataRecord(i)
  \/ \E i \in Invocations : PairGetDataBadRecord(i)
  \/ \E i \in Invocations : PairGetDataEnd(i)
  \/ \E i \in Invocations : PairPutMetricDatasError(i)
  \/ \E i \in Invocations : PairPutMetricDatasOk(i)

SpecPair == InitPair /\ [][NextPair]_vars

-----------------------------------------------------------------------------
(* The Chart component *)

\* A lifecycle hook runs to its end in one step: nothing else runs on the
\* component in between. What a hook or a method does is a record: the
\* component after it (this), the method it ran, whether that threw, and the
\* Dygraph instances it made.

\* new Date(point[0]).getTime()
GetTime(point) == point[1]

\* !field
Not(field) == field = Null \/ field = Val(FALSE)

Abs(n) == IF n < 0 THEN 0 - n ELSE n

\* new Dygraph(el, data, options)
Dygraph(id, data, dateWindow) ==
  [id |-> id, file |-> data, dateWindow |-> dateWindow]

\* the Dygraph instance a `new` makes now
NewDygraph == Cardinality(dygraphs) + 1

\* a method threw before it assigned anything
Threw(this, method) ==
  [this |-> this, ran |-> method, threw |-> TRUE, made |-> {}, unit |-> Null]

\* no method was called
NothingRan(this) ==
  [this |-> this, ran |-> "none", threw |-> FALSE, made |-> {}, unit |-> Null]

\* _chartInitalize: data[1][0] of data with one point is a TypeError
ChartInitalize(this, data) ==
  IF Len(data) < 2 THEN Threw(this, "_chartInitalize")
  ELSE LET first == GetTime(data[1])
           second == GetTime(data[2])
           unit == second - first
           width == unit * this._displayPointCount
           range == <<first, first + width>>
       IN [this |-> [this EXCEPT
                       !._chartBusy = Val(FALSE),
                       !._chartRangeWidth = Val(width),
                       !._chartRange = Val(range),
                       !._dygraph = Dygraph(NewDygraph, data, range)],
           ran |-> "_chartInitalize", threw |-> FALSE,
           made |-> {NewDygraph}, unit |-> Val(unit)]

\* ScrolledRange that does not keep the window right of the first point
ScrolledRangeNoFloor(data, anomalyCount, width) ==
  LET rangeMax == GetTime(data[anomalyCount + 1])
  IN <<rangeMax - width, rangeMax>>

\* _chartUpdate: the window that ends at the point of index anomalyCount
ScrolledRange(data, anomalyCount, width) ==
  LET first == GetTime(data[1])
      rangeMax == GetTime(data[anomalyCount + 1])
      rangeMin == rangeMax - width
  IN IF rangeMin < first THEN <<first, first + width>>
                         ELSE <<rangeMin, rangeMax>>

\* _chartUpdate: metaData.length.model of metaData without length, data[0][0]
\* of empty data and data[anomalyCount][0] past the end are TypeErrors
ChartUpdate(this, p) ==
  IF "length" \notin DOMAIN p.metaData THEN Threw(this, "_chartUpdate")
  ELSE LET data == p.data
           anomalyCount == Abs(p.metaData.length.model - 1)
       IN IF Len(data) = 0 THEN Threw(this, "_chartUpdate")
          ELSE IF Not(this._chartBusy) /\ anomalyCount + 1 > Len(data)
            THEN Threw(this, "_chartUpdate")
          ELSE LET range ==
                     IF Not(this._chartBusy)
                       THEN Val(ScrolledRange(data, anomalyCount,
                                              this._chartRangeWidth.value))
                       ELSE this._chartRange
               IN [this |-> [this EXCEPT
                               !._chartRange = range,
                               !._chartBusy = Val(FALSE),
                               !._dygraph = [@ EXCEPT
                                               !.file = data,
                                               !.dateWindow = range.value]],
                   ran |-> "_chartUpdate", threw |-> FALSE, made |-> {},
                   unit |-> Null]

\* componentDidUpdate that does not look at this._dygraph
ComponentDidUpdateAlwaysInitalize(this, p) ==
  IF Len(p.data) # 0 THEN ChartInitalize(this, p.data)
  ELSE NothingRan(this)

\* componentDidUpdate
ComponentDidUpdate(this, p) ==
  IF this._dygraph # Null THEN ChartUpdate(this, p)
  ELSE IF Len(p.data) # 0 THEN ChartInitalize(this, p.data)
  ELSE NothingRan(this)

\* the hook `hook` has done `did` to the component
Ran(hook, did) ==
  /\ chart' = did.this
  /\ dygraphs' = dygraphs \cup did.made
  /\ pointUnit' = IF did.made # {} THEN did.unit ELSE pointUnit
  /\ lastCall' = [hook |-> hook, ran |-> did.ran, threw |-> did.threw,
                  before |-> chart._dygraph]

\* the component has been rendered for the first time
ComponentDidMount ==
  /\ phase = "constructed"
  /\ LET this == [chart EXCEPT
                    !._chartBusy = Val(FALSE),
                    !._chartRange = Val(<<0, 0>>),
                    !._chartRangeWidth = Null,
                    !._chartScrollLock = Val(TRUE)]
     IN Ran("componentDidMount",
            IF Len(props.data) # 0 THEN ChartInitalize(this, props.data)
            ELSE NothingRan(this))
  /\ phase' = "mounted"
  /\ UNCHANGED props
  /\ UNCHANGED <<actionVars, streams>>

\* the component has been rendered again, with the props p
Rerender(p) ==
  /\ phase = "mounted"
  /\ props' = p
  /\ Ran("componentDidUpdate", ComponentDidUpdate(chart, p))
  /\ UNCHANGED phase
  /\ UNCHANGED <<actionVars, streams>>

\* the component is about to be removed
ComponentWillUnmount ==
  /\ phase = "mounted"
  /\ dygraphs' = IF chart._dygraph # Null
                   THEN dygraphs \ {chart._dygraph.id} ELSE dygraphs
  /\ chart' = [chart EXCEPT
                 !._dygraph = Null,
                 !._chartBusy = Null,
                 !._chartRange = Null,
                 !._chartRangeWidth = Null,
                 !._chartScrollLock = Null]
  /\ lastCall' = [hook |-> "componentWillUnmount", ran |-> "none",
                  threw |-> FALSE, before |-> chart._dygraph]
  /\ phase' = "unmounted"
  /\ UNCHANGED <<props, pointUnit>>
  /\ UNCHANGED <<actionVars, streams>>

InitChart ==
  /\ InitComponent
  /\ \E count \in PointCounts : chart = Constructed(count)
  /\ props \in Props
  /\ streams = NoStreams
  /\ ActionNotUsed

NextChart ==
  \/ ComponentDidMount
  \/ \E p \in Props : Rerender(p)
  \/ ComponentWillUnmount

SpecChart == InitChart /\ [][NextChart]_vars

-----------------------------------------------------------------------------
(* Specification *)

Next ==
  \/ StartModel
  \/ GetMetricError
  \/ GetMetricResult
  \/ GetStatisticsError
  \/ GetStatisticsMissing
  \/ GetStatisticsResult
  \/ PutMetricError
  \/ PutMetricOk
  \/ GetMetricDatasError
  \/ GetMetricDatasCached
  \/ GetMetricDatasEmpty
  \/ GetDataError
  \/ GetDataRecord
  \/ GetDataBadRecord
  \/ GetDataEnd
  \/ PutMetricDatasError
  \/ PutMetricDatasOk
  \/ StartModelAgain

Spec == Init /\ [][Next]_vars

-----------------------------------------------------------------------------
(* Reading the trace *)

Ops(op) == {i \in DOMAIN trace : trace[i].op = op}
Count(op) == Cardinality(Ops(op))
Sink == SelectSeq(trace, LAMBDA e : e.op = "SendData")
Delivered(kind) == \E i \in DOMAIN delivered : delivered[i].kind = kind
\* the action has taken the answer of getMetric
MetricTaken == pc \notin {"idle", "getMetric"}
\* the file statistics answered hold model.metric and were taken as the bounds
BoundsFromFile == MetricTaken /\ ~HasBounds(metric) /\ DOMAIN stats # {}

-----------------------------------------------------------------------------
(* Claims *)

\* C1: with no cached rows, once getData has delivered N records that parse
\* followed by the end sentinel, the sink has received exactly N SendData
\* events, the i-th carrying the i-th record read, and putMetricDatas has been
\* called exactly once, with a batch holding exactly those N records in order
\* (rowid 0..N-1).
C1_LiveReadEmitsAndSavesAll ==
  LET n == Len(delivered) - 1 IN
    (/\ metricData.kind = "value"
     /\ Len(metricData.value) = 0
     /\ delivered # <<>>
     /\ delivered[Len(delivered)].kind = "end"
     /\ \A i \in 1..n : delivered[i].kind = "data")
    => /\ Len(Sink) = n
       /\ \A i \in 1..n :
            Sink[i].arg = <<[sec |-> delivered[i].ts \div 1000,
                             frac |-> delivered[i].ts % 1000],
                            delivered[i].val>>
       /\ Count("putMetricDatas") = 1
       /\ \A k \in Ops("putMetricDatas") :
            /\ Len(trace[k].arg.json) = n
            /\ \A i \in 1..n :
                 trace[k].arg.json[i] =
                   [rowid |-> i - 1, timestamp |-> delivered[i].ts,
                    metric_value |-> delivered[i].val,
                    display_value |-> delivered[i].val]

\* two different records, then the end sentinel, and the rows were saved
C1_Witness ==
  /\ pc = "done"
  /\ inner.state = "resolved"
  /\ Len(delivered) = 3
  /\ delivered[1].kind = "data"
  /\ delivered[2].kind = "data"
  /\ delivered[1] # delivered[2]
  /\ delivered[3].kind = "end"
  /\ Len(dbRows) = 2

\* C2: when the data rows query answers a non-empty list, the sink receives
\* one SendData event per cached row, in the stored order, and nothing else,
\* and getData is never called.
C2_CachedRowsReplayedInOrder ==
  (metricData.kind = "value" /\ Len(metricData.value) > 0)
  => /\ Len(Sink) = Len(dbRows)
     /\ \A i \in 1..Len(dbRows) :
          /\ Sink[i].arg[2] = dbRows[i].metric_value
          /\ Sink[i].arg[1] =
               IF timestampField = "timestamp"
                 THEN [sec |-> dbRows[i].timestamp \div 1000,
                       frac |-> dbRows[i].timestamp % 1000]
                 ELSE NaN
     /\ Count("getData") = 0
     /\ delivered = <<>>

\* two cached rows with different values were replayed
C2_Witness ==
  /\ pc = "done"
  /\ inner.state = "resolved"
  /\ metricData.kind = "value"
  /\ Len(metricData.value) = 2
  /\ metricData.value[1].metric_value # metricData.value[2].metric_value
  /\ Len(Sink) = 2

\* C3 (as claimed): once getData has reported a read error, StopModel has been
\* emitted and the streamData promise is rejected, and no SendData event
\* follows the StopModel in the trace.
C3_NoSendDataAfterReadError ==
  /\ Delivered("error")
       => (Count("StopModel") >= 1 /\ inner.state = "rejected")
  /\ \A i, j \in DOMAIN trace :
       (i < j /\ trace[i].op = "StopModel") => trace[j].op # "SendData"

\* C4 (as claimed): once a record has failed to parse, the streamData promise
\* is rejected and neither a SendData event nor a putMetricDatas call follows
\* the rejection.
C4_ParseFailureAbortsStream ==
  /\ Delivered("bad") => inner.state = "rejected"
  /\ \A i, j \in DOMAIN trace :
       (i < j /\ trace[i].op = "streamReject" /\ trace[i].arg = "SyntaxError")
       => trace[j].op \notin {"SendData", "putMetricDatas"}

\* C5 (as claimed): once a record has failed to parse, the StopModel signal
\* has been emitted.
C5_ParseFailureStopsModel ==
  Delivered("bad") => Count("StopModel") >= 1

\* C6: when getMetric answers a record holding both min and max,
\* getStatistics is never called and the model is created exactly once, with
\* exactly the cached min and max.
C6_CachedBoundsSkipFilesystem ==
  (MetricTaken /\ HasBounds(metric))
  => /\ Count("getStatistics") = 0
     /\ Count("createModel") = 1
     /\ \A k \in Ops("createModel") :
          trace[k].arg = [min |-> metric.min, max |-> metric.max]

\* the cached bounds were used and the run went through to the end
C6_Witness ==
  /\ pc = "done"
  /\ HasBounds(metric)
  /\ Count("createModel") = 1
  /\ inner.state = "resolved"

\* C7 (as claimed): when getMetric yields no cached bounds (no record, or a
\* record missing min or max) and the file statistics hold the metric,
\* getStatistics has been called exactly once and, after it, putMetric exactly
\* once with the resolved min and max.
C7_MissWritesBoundsOnce ==
  BoundsFromFile
  => /\ Count("getStatistics") = 1
     /\ Count("putMetric") = 1
     /\ \A g \in Ops("getStatistics") : \A k \in Ops("putMetric") :
          /\ g < k
          /\ trace[k].arg.min = stats.min
          /\ trace[k].arg.max = stats.max

\* C8 (as claimed): after a 'notFound' answer of getMetric the promise is not
\* rejected with a DatabaseGetError, the coroutine does not die, and once the
\* file statistics hold the metric the bounds are written back; once the write
\* has succeeded the model is created with them.
C8_NotFoundIsCacheMiss ==
  (MetricTaken /\ metric = Undefined)
  => /\ outer.value # "DatabaseGetError"
     /\ pc # "crashed"
     /\ DOMAIN stats # {} => Count("putMetric") = 1
     /\ fileStats.kind = "true"
          => \E k \in Ops("createModel") : trace[k].arg = stats

\* C9 (as claimed): when getStatistics answers statistics that lack the
\* metric, the promise is rejected with a FilesystemGetError and neither
\* putMetric nor createModel is called.
C9_MissingMetricIsFilesystemError ==
  (fileStats.kind = "value" /\ MetricName \notin DOMAIN fileStats.value)
  => /\ outer.state = "rejected"
     /\ outer.value = "FilesystemGetError"
     /\ Count("putMetric") = 0
     /\ Count("createModel") = 0

\* C10: createModel is called at most once, and only after the bounds were
\* resolved (taken from the cached record, or taken from the file statistics
\* and written back with success); every data rows query, getData call and
\* SendData event comes after createModel.
C10_StagesInOrder ==
  /\ Count("createModel") <= 1
  /\ \A k \in Ops("createModel") :
       /\ trace[k].arg = stats
       /\ \/ /\ HasBounds(metric)
             /\ stats = [min |-> metric.min, max |-> metric.max]
             /\ Count("getStatistics") = 0
          \/ /\ fileStats.kind = "true"
             /\ \E g \in Ops("getStatistics") : \E p \in Ops("putMetric") :
                  /\ g < p
                  /\ p < k
                  /\ trace[p].arg.min = stats.min
                  /\ trace[p].arg.max = stats.max
  /\ \A i \in DOMAIN trace :
       trace[i].op \in {"getMetricDatas", "getData", "SendData"}
       => \E k \in Ops("createModel") : k < i

\* bounds read from the file and written back, then records streamed
C10_Witness ==
  /\ Count("putMetric") = 1
  /\ Count("createModel") = 1
  /\ Count("getData") = 1
  /\ Len(Sink) >= 2

\* the requests made on the database and file clients
Requests == {"getMetric", "getStatistics", "putMetric", "getMetricDatas",
             "getData", "putMetricDatas"}
\* the rejection values that stand for a failure of a collaborator
CollaboratorErrors == {"DatabaseGetError", "FilesystemGetError",
                       "DatabasePutError", "ReadError", "WriteError"}
\* the rows accumulated so far (a list while reading, a JSON string after)
Accumulated == IF pc = "streaming" THEN rows ELSE JSONParse(rows)
\* the records that parsed, in the order getData delivered them
DataDelivered == SelectSeq(delivered, LAMBDA d : d.kind = "data")
\* putMetric has called back with an error
PutMetricFailed ==
  /\ fileStats.kind = "error"
  /\ \E i \in DOMAIN trace :
       trace[i].op = "callback" /\ trace[i].arg = "putMetric"

\* C11 (as claimed): after an invocation that completed with success, the
\* next invocation for the same model calls neither getStatistics nor
\* getData, whatever the number N >= 0 of records of the file.
C11_LaterRunUsesCacheOnly ==
  (earlier.runs >= 1 /\ earlier.ok)
  => (Count("getStatistics") = 0 /\ Count("getData") = 0)

\* C11 (amended): after an invocation that completed with success and
\* streamed at least one record (N >= 1), the next invocation for the same
\* model calls neither getStatistics nor getData.
C11_LaterRunUsesCacheWhenRowsSaved ==
  (earlier.runs >= 1 /\ earlier.ok /\ earlier.records >= 1)
  => (Count("getStatistics") = 0 /\ Count("getData") = 0)

\* the first run read two records from the file and saved them, the second
\* run replayed them and resolved
C11_Witness ==
  /\ earlier.runs = 1
  /\ earlier.ok
  /\ earlier.read
  /\ earlier.records = 2
  /\ pc = "done"
  /\ inner.state = "resolved"
  /\ Len(Sink) = 2

\* C12: when putMetric fails, the promise of the action is rejected with a
\* DatabasePutError; START_MODEL_SUCCESS is not dispatched, createModel is not
\* called, streamData is not started, and putMetric is not called again.
C12_PutMetricFailureStopsTheRun ==
  PutMetricFailed
  => /\ outer.state = "rejected"
     /\ outer.value = "DatabasePutError"
     /\ Count("dispatch") = 0
     /\ Count("createModel") = 0
     /\ Count("getMetricDatas") = 0
     /\ inner.state = "none"
     /\ Len(Sink) = 0
     /\ Count("putMetric") = 1
     /\ pc = "done"

\* putMetric was called with bounds read from the file and failed
C12_Witness ==
  /\ PutMetricFailed
  /\ Count("getStatistics") = 1
  /\ outer.state = "rejected"

\* C13 (as claimed): whenever a collaborator call has failed, whichever call
\* it is, the promise returned by the action is rejected; and no request is
\* made twice in one invocation.
C13_EveryFailureRejectsActionPromise ==
  /\ (\E i \in DOMAIN trace :
        /\ trace[i].op \in {"reject", "streamReject"}
        /\ trace[i].arg \in CollaboratorErrors)
     => outer.state = "rejected"
  /\ \A r \in Requests : Count(r) <= 1

\* C14: a request is made on a collaborator only after the callback of every
\* request made before it has fired, so at most one request waits for its
\* first callback at any time.
C14_OneRequestInFlight ==
  \A i, j \in DOMAIN trace :
    (i < j /\ trace[i].op \in Requests /\ trace[j].op \in Requests)
    => \E k \in (i + 1)..(j - 1) :
         trace[k].op = "callback" /\ trace[k].arg = trace[i].op

\* all six requests were made in one invocation
C14_Witness ==
  \A r \in Requests : Count(r) = 1

\* C15 (as claimed, in the form a finite run decides): once the invocation
\* has run to its end, the promise returned by the action is settled:
\* resolved if streaming completed, rejected if a stage failed.
C15_ActionPromiseSettledAtEnd ==
  pc = "done"
  => /\ outer.state \in {"resolved", "rejected"}
     /\ inner.state = "resolved" => outer.state = "resolved"
     /\ inner.state = "rejected" => outer.state = "rejected"

\* C16: when getMetricDatas fails, the streamData promise is rejected with a
\* DatabaseGetError, no SendData event is emitted, and neither getData nor
\* putMetricDatas is called.
C16_DataQueryFailureRejects ==
  metricData.kind = "error"
  => /\ inner.state = "rejected"
     /\ inner.value = "DatabaseGetError"
     /\ Len(Sink) = 0
     /\ Count("getData") = 0
     /\ Count("putMetricDatas") = 0
     /\ delivered = <<>>
     /\ pc = "done"

\* the data rows query failed after the bounds were resolved
C16_Witness ==
  /\ metricData.kind = "error"
  /\ Count("createModel") = 1
  /\ inner.state = "rejected"

\* C17: on the live-read path, rowId always equals the number of rows
\* accumulated; the rows carry rowid 0, 1, ... without gap or duplicate, in
\* the order the records were read; each SendData event has exactly one
\* accumulated row, the one at its position; and the batch handed to
\* putMetricDatas is the accumulated list.
C17_RowIdCountsAccumulatedRows ==
  Count("getData") = 1
  => /\ rowId = Len(Accumulated)
     /\ Len(Accumulated) = Len(DataDelivered)
     /\ Len(Sink) = Len(Accumulated)
     /\ \A i \in 1..Len(Accumulated) :
          /\ Accumulated[i].rowid = i - 1
          /\ Accumulated[i].timestamp = DataDelivered[i].ts
          /\ Accumulated[i].metric_value = DataDelivered[i].val
          /\ Sink[i].arg =
               <<[sec |-> Accumulated[i].timestamp \div 1000,
                  frac |-> Accumulated[i].timestamp % 1000],
                 Accumulated[i].metric_value>>
     /\ \A k \in Ops("putMetricDatas") : JSONParse(trace[k].arg) = Accumulated

\* two records read around a record that did not parse
C17_Witness ==
  /\ pc = "streaming"
  /\ rowId = 2
  /\ Len(delivered) = 3
  /\ delivered[2].kind = "bad"

\* the records that parsed among those delivered to call i, in order
OwnRecords(i) == SelectSeq(streams[i].delivered, LAMBDA d : d.kind = "data")
\* the batches call i handed to putMetricDatas
OwnBatches(i) ==
  SelectSeq(streams[i].calls, LAMBDA e : e.op = "putMetricDatas")

\* C18: when two streamData calls on the live-read path run interleaved, the
\* rows of each are its own: what a call accumulates and the batch it hands to
\* putMetricDatas hold exactly the records delivered to its own getData
\* callback, in order, with rowid counted from 0, whatever the other call did
\* in between.
C18_RowsPrivateToInvocation ==
  \A i \in Invocations :
    LET own == OwnRecords(i)
        expected == [n \in 1..Len(own) |->
                       [rowid |-> n - 1, timestamp |-> own[n].ts,
                        metric_value |-> own[n].val,
                        display_value |-> own[n].val]]
    IN /\ streams[i].pc = "streaming"
            => (streams[i].rows = expected /\ streams[i].rowId = Len(own))
       /\ streams[i].pc \in {"putMetricDatas", "done"}
            => /\ Len(OwnBatches(i)) = 1
               /\ JSONParse(OwnBatches(i)[1].arg) = expected

\* both calls wait for their batch to be written at the same time, each with
\* one record, and the two records differ
C18_Witness ==
  /\ \A i \in Invocations :
       /\ streams[i].pc = "putMetricDatas"
       /\ Len(OwnRecords(i)) = 1
  /\ OwnRecords(1) # OwnRecords(2)

\* C19: through mount, updates and unmount of the chart, a Dygraph instance is
\* made only by a hook that found none and has data, there is never more than
\* one instance and it is the one the component holds, _chartUpdate runs only
\* in a hook that found an instance, and once unmounted no instance is left
\* and _dygraph, _chartBusy, _chartRange, _chartRangeWidth, _chartScrollLock
\* are null.
C19_OneDygraphThroughLifecycle ==
  /\ Cardinality(dygraphs) <= 1
  /\ dygraphs = IF chart._dygraph = Null THEN {} ELSE {chart._dygraph.id}
  /\ (chart._dygraph # Null /\ lastCall.before = Null)
       => (lastCall.ran = "_chartInitalize" /\ Len(props.data) # 0)
  /\ (lastCall.ran = "_chartInitalize" /\ ~lastCall.threw)
       => (lastCall.before = Null /\ Len(props.data) # 0)
  /\ lastCall.ran = "_chartUpdate" => lastCall.before # Null
  /\ phase = "unmounted"
       => /\ dygraphs = {}
          /\ chart._dygraph = Null
          /\ chart._chartBusy = Null
          /\ chart._chartRange = Null
          /\ chart._chartRangeWidth = Null
          /\ chart._chartScrollLock = Null

\* a chart that held an instance has been unmounted
C19_Witness ==
  /\ phase = "unmounted"
  /\ lastCall.before # Null

\* C20: when _chartInitalize or _chartUpdate has returned, the window
\* _chartRange is _chartRangeWidth wide, _chartRangeWidth is the time between
\* the first two points at initialisation times the display point count, the
\* window does not start before the first point of the data, and _chartBusy
\* is false.
C20_WindowFixedWidth ==
  (lastCall.ran \in {"_chartInitalize", "_chartUpdate"} /\ ~lastCall.threw)
    => /\ chart._chartRange.value[2] - chart._chartRange.value[1]
            = chart._chartRangeWidth.value
       /\ chart._chartRangeWidth.value
            = pointUnit.value * chart._displayPointCount
       /\ chart._chartRange.value[1] >= GetTime(props.data[1])
       /\ chart._chartBusy = Val(FALSE)

\* _chartUpdate has returned with a window that starts after the first point
C20_Witness ==
  /\ lastCall.ran = "_chartUpdate"
  /\ ~lastCall.threw
  /\ chart._chartRange.value[1] > GetTime(props.data[1])

\* C21: whenever componentDidMount or componentDidUpdate has run on a
\* component that held no Dygraph instance, with data of one point or more,
\* _chartInitalize has returned and the component holds an instance.
C21_InitializationCompletes ==
  (/\ lastCall.hook \in {"componentDidMount", "componentDidUpdate"}
   /\ lastCall.before = Null
   /\ Len(props.data) >= 1)
    => /\ lastCall.ran = "_chartInitalize"
       /\ ~lastCall.threw
       /\ chart._dygraph # Null
       /\ dygraphs = {chart._dygraph.id}

====
